---- MODULE Spec2Model ----
(***************************************************************************)
(* The line/plane store of the AR linear-algebra visualizer                *)
(* (useLinePlaneStore, a zustand store) and its equation formatter, the    *)
(* two other definitions of that store, the sample-objects effect of       *)
(* ARScene, and the DragControls component.                                *)
(*                                                                         *)
(* Numbers.  A JavaScript number is modelled as a fixed-point integer in   *)
(* units of 1/SCALE.  Angles are integers in units of 1/8 turn (45         *)
(* degrees); the half angles the quaternion conversion needs are then      *)
(* integers in units of 1/16 turn and come from a table.                   *)
(*                                                                         *)
(* Ids.  generateUUID() (three.js, RFC 4122 version 4) is modelled as a    *)
(* generator of fresh values: the n-th call returns n.  null is 0.         *)
(***************************************************************************)
EXTENDS Integers, Sequences, FiniteSets, TLC

VARIABLES
    objects,           \* store state: MathObject[]
    selectedObjectId,  \* store state: string | null
    nextId,            \* state of the UUID generator: number of ids drawn + 1
    published,         \* the store states published by set() during the last operation
    removed,           \* the ids of the objects removed so far
    lastOp,            \* the last operation: its name, arguments and return value, and
                       \* what it found: whether its id was stored, and the selection
    scratch,           \* the caller's own Vector3 and Euler, which it changes in place
    cellOf,            \* which Vector3 / Euler object the position and the rotation of
                       \* the object with an id are: one only the store refers to
                       \* ("store"), or the caller's own one ("caller")
    copies,            \* the states of the stores of the other two definitions of
                       \* useLinePlaneStore when they are given the same calls: of the
                       \* scene module, then of ARScene.tsx; <<>> when they are not run
    deps,              \* ARScene: the dependency [objects.length] of the last run of
                       \* its effect, UNDEFINED before the component is mounted
    dragControls,      \* DragControls: its useState values, <<>> before the component
                       \* is mounted
    components         \* the MathLine and MathPlane components: which scene they are
                       \* of, then the refs / useState values of the component of each
                       \* id; <<>> when they are not run

vars == <<objects, selectedObjectId, nextId, published, removed, lastOp, scratch, cellOf,
          copies, deps, dragControls, components>>

-----------------------------------------------------------------------------
(* Bounds of the exploration *)

MaxCreated == 2    \* number of addLine/addPlane calls explored

-----------------------------------------------------------------------------
(* Values *)

SCALE == 10 * 10 * 10 * 10      \* fixed-point resolution: 1.0 is SCALE

NULL == 0
UNDEFINED == -1

Vector3(x, y, z) == [x |-> x, y |-> y, z |-> z]
Euler(x, y, z) == [x |-> x, y |-> y, z |-> z]      \* order "XYZ"

clone(v) == [k \in DOMAIN v |-> v[k]]

Abs(a) == IF a < 0 THEN -a ELSE a

\* rounding to the nearest representable value, ties away from zero
RoundDiv(p, q) == IF p >= 0 THEN (2 * p + q) \div (2 * q) ELSE -((2 * (-p) + q) \div (2 * q))

FMul(a, b) == RoundDiv(a * b, SCALE)
FDiv(a, b) == RoundDiv(a * SCALE, b)

RECURSIVE SqrtSearch(_, _, _)
SqrtSearch(n, lo, hi) ==
    IF lo >= hi THEN lo
    ELSE LET mid == (lo + hi + 1) \div 2
         IN IF mid * mid <= n THEN SqrtSearch(n, mid, hi) ELSE SqrtSearch(n, lo, mid - 1)

\* Math.sqrt of the fixed-point number a (a >= 0)
FSqrt(a) ==
    LET n == a * SCALE
        r == SqrtSearch(n, 0, 4 * SCALE)
    IN IF (r + 1) * (r + 1) - n < n - r * r THEN r + 1 ELSE r

\* cos and sin of k/16 turn
CosTable == <<10000, 9239, 7071, 3827, 0, -3827, -7071, -9239,
              -10000, -9239, -7071, -3827, 0, 3827, 7071, 9239>>
Cos16(k) == CosTable[(k % 16) + 1]
Sin16(k) == CosTable[((k + 12) % 16) + 1]

\* Quaternion.setFromEuler, order XYZ; the Euler angles are in 1/8 turns
setFromEuler(euler) ==
    LET c1 == Cos16(euler.x)
        c2 == Cos16(euler.y)
        c3 == Cos16(euler.z)
        s1 == Sin16(euler.x)
        s2 == Sin16(euler.y)
        s3 == Sin16(euler.z)
    IN [x |-> FMul(FMul(s1, c2), c3) + FMul(FMul(c1, s2), s3),
        y |-> FMul(FMul(c1, s2), c3) - FMul(FMul(s1, c2), s3),
        z |-> FMul(FMul(c1, c2), s3) + FMul(FMul(s1, s2), c3),
        w |-> FMul(FMul(c1, c2), c3) - FMul(FMul(s1, s2), s3)]

\* Vector3.applyQuaternion
applyQuaternion(v, q) ==
    LET tx == 2 * (FMul(q.y, v.z) - FMul(q.z, v.y))
        ty == 2 * (FMul(q.z, v.x) - FMul(q.x, v.z))
        tz == 2 * (FMul(q.x, v.y) - FMul(q.y, v.x))
    IN Vector3(v.x + FMul(q.w, tx) + FMul(q.y, tz) - FMul(q.z, ty),
               v.y + FMul(q.w, ty) + FMul(q.z, tx) - FMul(q.x, tz),
               v.z + FMul(q.w, tz) + FMul(q.x, ty) - FMul(q.y, tx))

\* a rotation by the inverse of the quaternion of the angles
applyEuler_inverse(v, euler) ==
    applyQuaternion(v, [setFromEuler(euler) EXCEPT !.x = -@, !.y = -@, !.z = -@])

\* Vector3.applyEuler
applyEuler(v, euler) == applyQuaternion(v, setFromEuler(euler))

dot(a, b) == FMul(a.x, b.x) + FMul(a.y, b.y) + FMul(a.z, b.z)

length(v) == FSqrt(dot(v, v))

\* Vector3.normalize: divideScalar(length() || 1)
normalize(v) ==
    LET l == IF length(v) = 0 THEN SCALE ELSE length(v)
    IN Vector3(FDiv(v.x, l), FDiv(v.y, l), FDiv(v.z, l))

RECURSIVE Pow10(_)
Pow10(f) == IF f = 0 THEN 1 ELSE 10 * Pow10(f - 1)

RECURSIVE Pad(_, _)
Pad(str, f) == IF Len(str) >= f THEN str ELSE Pad("0" \o str, f)

\* Number.prototype.toFixed(f), f >= 1: the sign is taken first, the magnitude is
\* rounded to f decimals (ties upwards), so a small negative number prints "-0.0"
toFixed(a, f) ==
    LET n == RoundDiv(Abs(a) * Pow10(f), SCALE)
    IN (IF a < 0 THEN "-" ELSE "")
       \o ToString(n \div Pow10(f)) \o "." \o Pad(ToString(n % Pow10(f)), f)

-----------------------------------------------------------------------------
(* The equation of an object (the body of updateEquation) *)

\* a line equation whose direction is the rotated y axis
lineEquation_yAxis(position, rotation) ==
    LET direction == normalize(applyEuler(Vector3(0, SCALE, 0), rotation))
    IN "x = (" \o toFixed(position.x, 1) \o ", "
               \o toFixed(position.y, 1) \o ", "
               \o toFixed(position.z, 1) \o ") + t·("
               \o toFixed(direction.x, 1) \o ", "
               \o toFixed(direction.y, 1) \o ", "
               \o toFixed(direction.z, 1) \o ")"

\* a line equation whose direction is turned round when the point is on
\* the negative side of the x axis
lineEquation_turnedRound(position, rotation) ==
    LET unit == normalize(applyEuler(Vector3(SCALE, 0, 0), rotation))
        direction == IF position.x < 0 THEN Vector3(-unit.x, -unit.y, -unit.z) ELSE unit
    IN "x = (" \o toFixed(position.x, 1) \o ", "
               \o toFixed(position.y, 1) \o ", "
               \o toFixed(position.z, 1) \o ") + t·("
               \o toFixed(direction.x, 1) \o ", "
               \o toFixed(direction.y, 1) \o ", "
               \o toFixed(direction.z, 1) \o ")"

lineEquation(position, rotation) ==
    LET direction == normalize(applyEuler(Vector3(SCALE, 0, 0), rotation))
    IN "x = (" \o toFixed(position.x, 1) \o ", "
               \o toFixed(position.y, 1) \o ", "
               \o toFixed(position.z, 1) \o ") + t·("
               \o toFixed(direction.x, 1) \o ", "
               \o toFixed(direction.y, 1) \o ", "
               \o toFixed(direction.z, 1) \o ")"

\* a plane equation that prints one decimal place
planeEquation_oneDecimal(position, rotation) ==
    LET normal == normalize(applyEuler(Vector3(0, 0, SCALE), rotation))
        d == -dot(normal, position)
    IN toFixed(normal.x, 1) \o "x + " \o toFixed(normal.y, 1) \o "y + "
       \o toFixed(normal.z, 1) \o "z + " \o toFixed(d, 1) \o " = 0"

\* a plane equation whose offset is normal . position, not negated
planeEquation_positiveOffset(position, rotation) ==
    LET normal == normalize(applyEuler(Vector3(0, 0, SCALE), rotation))
        d == dot(normal, position)
    IN toFixed(normal.x, 2) \o "x + " \o toFixed(normal.y, 2) \o "y + "
       \o toFixed(normal.z, 2) \o "z + " \o toFixed(d, 2) \o " = 0"

planeEquation(position, rotation) ==
    LET normal == normalize(applyEuler(Vector3(0, 0, SCALE), rotation))
        d == -dot(normal, position)
    IN toFixed(normal.x, 2) \o "x + " \o toFixed(normal.y, 2) \o "y + "
       \o toFixed(normal.z, 2) \o "z + " \o toFixed(d, 2) \o " = 0"

formatEquation(type, position, rotation) ==
    IF type = "line" THEN lineEquation(position, rotation)
    ELSE planeEquation(position, rotation)

-----------------------------------------------------------------------------
(* Inputs *)

Positions == {Vector3(0, SCALE, 0), Vector3(2500, -500, 15000)}
Rotations == {Euler(0, 0, 0), Euler(0, 0, 2)}

\* Math.random(), in units of 1/1000
Randoms == {999}

\* the argument lists of addLine(position?, rotation?)
AddArgs == {<<>>} \cup {<<p, r>> : p \in Positions, r \in Rotations}

\* the default parameters of addLine and addPlane
\* a default position at the origin
positionOf_origin(args) == IF Len(args) >= 1 THEN args[1] ELSE Vector3(0, 0, 0)

positionOf(args) == IF Len(args) >= 1 THEN args[1] ELSE Vector3(0, SCALE, 0)
rotationOf(args) == IF Len(args) >= 2 THEN args[2] ELSE Euler(0, 0, 0)

\* the poses of SpecFormat: the origin, positions with negative coordinates,
\* and quarter turns about Z and about X
FormatPositions == {Vector3(0, 0, 0), Vector3(2500, -500, 15000),
                    Vector3(-2 * SCALE, 3 * SCALE, -5000)}
FormatRotations == {Euler(0, 0, 0), Euler(0, 0, 2), Euler(2, 0, 0)}
FormatAddArgs == {<<>>, <<Vector3(0, 0, 0), Euler(0, 0, 0)>>}

\* the sample objects of the effect of ARScene, as <<arguments of addLine,
\* arguments of addPlane>>: of ARScene.tsx, and of the scene module
Samples == { << <<Vector3(0, 0, 0), Euler(0, 0, 0)>>,
                <<Vector3(0, SCALE \div 2, 0), Euler(1, 0, 0)>> >>,
             << <<>>, <<>> >> }

\* the poses the inputs can give an object
Poses == (Positions \cup FormatPositions \cup {positionOf(<<>>)}
             \cup {positionOf(sample[2]) : sample \in Samples})
             \X (Rotations \cup FormatRotations \cup {rotationOf(<<>>)}
                    \cup {rotationOf(sample[2]) : sample \in Samples})

\* formatEquation on every pose of the inputs, evaluated once
Equations == [type \in {"line", "plane"}, pose \in Poses |->
                 formatEquation(type, pose[1], pose[2])] @@ <<>>

computeEquation(object) ==
    Equations[object.type, <<object.position, object.rotation>>]

-----------------------------------------------------------------------------
(* The store: zustand's create((set, get) => ...) *)

\* get(): the current store state
Store == [objects |-> objects, selectedObjectId |-> selectedObjectId]

\* set(partial): the partial state is merged into the state and the result is
\* published to the subscribers
set(s, partial) ==
    [k \in DOMAIN s |-> IF k \in DOMAIN partial THEN partial[k] ELSE s[k]]

\* the state after the publications pub made from state s
after(s, pub) == IF pub = <<>> THEN s ELSE pub[Len(pub)]

\* objects.find(obj => obj.id === id): the index of the first match, 0 for undefined
find(objs, id) ==
    IF \E i \in 1..Len(objs) : objs[i].id = id
    THEN CHOOSE i \in 1..Len(objs) :
             objs[i].id = id /\ \A j \in 1..(i - 1) : objs[j].id # id
    ELSE 0

\* a generator that hands out the id of the newest stored object again
generateUUID_last == IF objects = <<>> THEN nextId ELSE objects[Len(objects)].id

generateUUID_fromLength == Len(objects) + 1

\* three.js generateUUID()
generateUUID == nextId

\* a color whose hue is rounded to the nearest integer
color_rounded(random) == "hsl(" \o ToString(RoundDiv(random * 360, 1000)) \o ", 70%, 50%)"

\* `hsl(${Math.floor(Math.random() * 360)}, 70%, 50%)`
color(random) == "hsl(" \o ToString((random * 360) \div 1000) \o ", 70%, 50%)"

\* an updateEquation that writes the equation after the one the object has
updateEquation_append(s, id) ==
    LET i == find(s.objects, id)
    IN IF i = 0 THEN <<>>
       ELSE LET equation == s.objects[i].equation \o "; " \o computeEquation(s.objects[i])
            IN << set(s, [objects |-> [j \in 1..Len(s.objects) |->
                      IF s.objects[j].id = id
                      THEN [s.objects[j] EXCEPT !.equation = equation]
                      ELSE s.objects[j]]]) >>

\* updateEquation(id): the states it publishes when called in state s
updateEquation_sets(s, id) ==
    LET i == find(s.objects, id)
    IN IF i = 0 THEN <<>>
       ELSE LET equation == computeEquation(s.objects[i])
            IN << set(s, [objects |-> [j \in 1..Len(s.objects) |->
                      IF s.objects[j].id = id
                      THEN [s.objects[j] EXCEPT !.equation = equation]
                      ELSE s.objects[j]]]) >>

\* a handler that ends with get().updateEquation(id)
thenUpdateEquation(s1, id) == <<s1>> \o updateEquation_sets(s1, id)

addLine_front(s, args, id, random) ==
    LET line == [id |-> id, type |-> "line",
                 position |-> clone(positionOf(args)),
                 rotation |-> clone(rotationOf(args)),
                 color |-> color(random),
                 equation |-> "x = (0,0,0) + t·(1,0,0)",
                 visible |-> TRUE]
    IN thenUpdateEquation(
           set(s, [objects |-> <<line>> \o s.objects, selectedObjectId |-> id]), id)

addLine_sets(s, args, id, random) ==
    LET line == [id |-> id,
                 type |-> "line",
                 position |-> clone(positionOf(args)),
                 rotation |-> clone(rotationOf(args)),
                 color |-> color(random),
                 equation |-> "x = (0,0,0) + t·(1,0,0)",
                 visible |-> TRUE]
    IN thenUpdateEquation(
           set(s, [objects |-> Append(s.objects, line), selectedObjectId |-> id]), id)

\* an addPlane that stores the plane in place of the collection
addPlane_replace(s, args, id, random) ==
    LET plane == [id |-> id, type |-> "plane",
                  position |-> clone(positionOf(args)),
                  rotation |-> clone(rotationOf(args)),
                  color |-> color(random),
                  equation |-> "0x + 0y + 1z = 0",
                  visible |-> TRUE]
    IN thenUpdateEquation(
           set(s, [objects |-> <<plane>>, selectedObjectId |-> id]), id)

addPlane_asLine(s, args, id, random) == addLine_sets(s, args, id, random)

addPlane_sets(s, args, id, random) ==
    LET plane == [id |-> id,
                  type |-> "plane",
                  position |-> clone(positionOf(args)),
                  rotation |-> clone(rotationOf(args)),
                  color |-> color(random),
                  equation |-> "0x + 0y + 1z = 0",
                  visible |-> TRUE]
    IN thenUpdateEquation(
           set(s, [objects |-> Append(s.objects, plane), selectedObjectId |-> id]), id)

removeObject_keepSelection(s, id) ==
    << set(s, [objects |-> SelectSeq(s.objects, LAMBDA obj : obj.id # id)]) >>

removeObject_clearSelection(s, id) ==
    << set(s, [objects |-> SelectSeq(s.objects, LAMBDA obj : obj.id # id),
               selectedObjectId |-> NULL]) >>

\* removal by index: splice(findIndex(...), 1), which drops the last element
\* when findIndex returns -1
removeObject_splice(s, id) ==
    LET i == IF find(s.objects, id) = 0 THEN Len(s.objects) ELSE find(s.objects, id)
    IN << set(s, [objects |-> [j \in 1..(Len(s.objects) - (IF i = 0 THEN 0 ELSE 1)) |->
                      IF j < i THEN s.objects[j] ELSE s.objects[j + 1]],
                  selectedObjectId |-> IF s.selectedObjectId = id
                                       THEN NULL ELSE s.selectedObjectId]) >>

\* removal that truncates the collection at the object
removeObject_truncate(s, id) ==
    << set(s, [objects |-> IF find(s.objects, id) = 0 THEN s.objects
                           ELSE SubSeq(s.objects, 1, find(s.objects, id) - 1),
               selectedObjectId |-> IF s.selectedObjectId = id
                                    THEN NULL ELSE s.selectedObjectId]) >>

removeObject_sets(s, id) ==
    << set(s, [objects |-> SelectSeq(s.objects, LAMBDA obj : obj.id # id),
               selectedObjectId |-> IF s.selectedObjectId = id
                                    THEN NULL ELSE s.selectedObjectId]) >>

updateObjectPosition_stale(s, id, position) ==
    << set(s, [objects |-> [j \in 1..Len(s.objects) |->
                  IF s.objects[j].id = id
                  THEN [s.objects[j] EXCEPT !.position = clone(position)]
                  ELSE s.objects[j]]]) >>

\* a position handler that selects the object it moves
updateObjectPosition_select(s, id, position) ==
    thenUpdateEquation(
        set(s, [objects |-> [j \in 1..Len(s.objects) |->
                   IF s.objects[j].id = id
                   THEN [s.objects[j] EXCEPT !.position = clone(position)]
                   ELSE s.objects[j]],
                selectedObjectId |-> id]), id)

updateObjectPosition_sets(s, id, position) ==
    thenUpdateEquation(
        set(s, [objects |-> [j \in 1..Len(s.objects) |->
                   IF s.objects[j].id = id
                   THEN [s.objects[j] EXCEPT !.position = clone(position)]
                   ELSE s.objects[j]]]), id)

\* a rotation handler that rebuilds the object as a line
updateObjectRotation_retype(s, id, rotation) ==
    thenUpdateEquation(
        set(s, [objects |-> [j \in 1..Len(s.objects) |->
                   IF s.objects[j].id = id
                   THEN [s.objects[j] EXCEPT !.rotation = clone(rotation),
                                             !.type = "line"]
                   ELSE s.objects[j]]]), id)

\* a rotation handler that shows the object it rotates
updateObjectRotation_show(s, id, rotation) ==
    thenUpdateEquation(
        set(s, [objects |-> [j \in 1..Len(s.objects) |->
                   IF s.objects[j].id = id
                   THEN [s.objects[j] EXCEPT !.rotation = clone(rotation),
                                             !.visible = TRUE]
                   ELSE s.objects[j]]]), id)

updateObjectRotation_sets(s, id, rotation) ==
    thenUpdateEquation(
        set(s, [objects |-> [j \in 1..Len(s.objects) |->
                   IF s.objects[j].id = id
                   THEN [s.objects[j] EXCEPT !.rotation = clone(rotation)]
                   ELSE s.objects[j]]]), id)

\* a selection that looks the id up and selects nothing when it is not stored
selectObject_validated(s, id) ==
    << set(s, [selectedObjectId |-> IF find(s.objects, id) = 0 THEN NULL ELSE id]) >>

selectObject_sets(s, id) == << set(s, [selectedObjectId |-> id]) >>

\* a toggle that rebuilds the object with the first hue
toggleVisibility_recolor(s, id) ==
    << set(s, [objects |-> [j \in 1..Len(s.objects) |->
                  IF s.objects[j].id = id
                  THEN [s.objects[j] EXCEPT !.visible = ~s.objects[j].visible,
                                            !.color = color(0)]
                  ELSE s.objects[j]]]) >>

\* a toggle that negates the flag of every object
toggleVisibility_all(s, id) ==
    << set(s, [objects |-> [j \in 1..Len(s.objects) |->
                  [s.objects[j] EXCEPT !.visible = ~s.objects[j].visible]]]) >>

\* a toggle that also takes the selection off the object it hides or shows
toggleVisibility_deselects(s, id) ==
    << set(s, [objects |-> [j \in 1..Len(s.objects) |->
                  IF s.objects[j].id = id
                  THEN [s.objects[j] EXCEPT !.visible = ~s.objects[j].visible]
                  ELSE s.objects[j]],
               selectedObjectId |-> IF s.selectedObjectId = id THEN NULL
                                    ELSE s.selectedObjectId]) >>

toggleVisibility_sets(s, id) ==
    << set(s, [objects |-> [j \in 1..Len(s.objects) |->
                  IF s.objects[j].id = id
                  THEN [s.objects[j] EXCEPT !.visible = ~s.objects[j].visible]
                  ELSE s.objects[j]]]) >>

\* a clone that returns the object it was called on
cloneCell_same(cell) == cell

\* position.clone() / rotation.clone(): the object it returns is a new one, which
\* only the store refers to
cloneCell(cell) == "store"

addReturn_id(id) == id

\* what addLine / addPlane return: their bodies have no return statement
addReturn(id) == UNDEFINED

-----------------------------------------------------------------------------
(* The store of the scene module: the same handlers, but addLine and addPlane *)
(* draw a random pose for a missing argument                                  *)

\* new Vector3(Math.random() * 2 - 1, Math.random() * 1.5, Math.random() * 2 - 1),
\* with one value of Math.random(), in units of 1/1000, for the three draws
randomPosition(random) ==
    Vector3((2 * random * SCALE) \div 1000 - SCALE,
            (15 * random * SCALE) \div 10000,
            (2 * random * SCALE) \div 1000 - SCALE)

\* new Euler(Math.random() * Math.PI * 2, ...), rounded down to eighths of a turn
randomRotation(random) ==
    Euler((8 * random) \div 1000, (8 * random) \div 1000, (8 * random) \div 1000)

\* if (!position) position = ... ; if (!rotation) rotation = ...
sceneModule_positionOf(args, random) ==
    IF Len(args) >= 1 THEN args[1] ELSE randomPosition(random)
sceneModule_rotationOf(args, random) ==
    IF Len(args) >= 2 THEN args[2] ELSE randomRotation(random)

sceneModule_updateEquation(s, id) ==
    LET i == find(s.objects, id)
    IN IF i = 0 THEN <<>>
       ELSE LET equation == computeEquation(s.objects[i])
            IN << set(s, [objects |-> [j \in 1..Len(s.objects) |->
                      IF s.objects[j].id = id
                      THEN [s.objects[j] EXCEPT !.equation = equation]
                      ELSE s.objects[j]]]) >>

sceneModule_addLine(s, args, id, random) ==
    LET line == [id |-> id,
                 type |-> "line",
                 position |-> clone(sceneModule_positionOf(args, random)),
                 rotation |-> clone(sceneModule_rotationOf(args, random)),
                 color |-> color(random),
                 equation |-> "x = (0,0,0) + t·(1,0,0)",
                 visible |-> TRUE]
        s1 == set(s, [objects |-> Append(s.objects, line), selectedObjectId |-> id])
    IN <<s1>> \o sceneModule_updateEquation(s1, id)

sceneModule_addPlane(s, args, id, random) ==
    LET plane == [id |-> id,
                  type |-> "plane",
                  position |-> clone(sceneModule_positionOf(args, random)),
                  rotation |-> clone(sceneModule_rotationOf(args, random)),
                  color |-> color(random),
                  equation |-> "0x + 0y + 1z = 0",
                  visible |-> TRUE]
        s1 == set(s, [objects |-> Append(s.objects, plane), selectedObjectId |-> id])
    IN <<s1>> \o sceneModule_updateEquation(s1, id)

sceneModule_removeObject(s, id) ==
    << set(s, [objects |-> SelectSeq(s.objects, LAMBDA obj : obj.id # id),
               selectedObjectId |-> IF s.selectedObjectId = id
                                    THEN NULL ELSE s.selectedObjectId]) >>

sceneModule_updateObjectPosition(s, id, position) ==
    LET s1 == set(s, [objects |-> [j \in 1..Len(s.objects) |->
                         IF s.objects[j].id = id
                         THEN [s.objects[j] EXCEPT !.position = clone(position)]
                         ELSE s.objects[j]]])
    IN <<s1>> \o sceneModule_updateEquation(s1, id)

\* a rotation handler that leaves the equation as it was
sceneModule_updateObjectRotation_stale(s, id, rotation) ==
    << set(s, [objects |-> [j \in 1..Len(s.objects) |->
                  IF s.objects[j].id = id
                  THEN [s.objects[j] EXCEPT !.rotation = clone(rotation)]
                  ELSE s.objects[j]]]) >>

sceneModule_updateObjectRotation(s, id, rotation) ==
    LET s1 == set(s, [objects |-> [j \in 1..Len(s.objects) |->
                         IF s.objects[j].id = id
                         THEN [s.objects[j] EXCEPT !.rotation = clone(rotation)]
                         ELSE s.objects[j]]])
    IN <<s1>> \o sceneModule_updateEquation(s1, id)

sceneModule_selectObject(s, id) == << set(s, [selectedObjectId |-> id]) >>

sceneModule_toggleVisibility(s, id) ==
    << set(s, [objects |-> [j \in 1..Len(s.objects) |->
                  IF s.objects[j].id = id
                  THEN [s.objects[j] EXCEPT !.visible = ~s.objects[j].visible]
                  ELSE s.objects[j]]]) >>

-----------------------------------------------------------------------------
(* The store of ARScene.tsx *)

ARScene_updateEquation(s, id) ==
    LET i == find(s.objects, id)
    IN IF i = 0 THEN <<>>
       ELSE LET equation == computeEquation(s.objects[i])
            IN << set(s, [objects |-> [j \in 1..Len(s.objects) |->
                      IF s.objects[j].id = id
                      THEN [s.objects[j] EXCEPT !.equation = equation]
                      ELSE s.objects[j]]]) >>

ARScene_addLine(s, args, id, random) ==
    LET line == [id |-> id,
                 type |-> "line",
                 position |-> clone(positionOf(args)),
                 rotation |-> clone(rotationOf(args)),
                 color |-> color(random),
                 equation |-> "x = (0,0,0) + t·(1,0,0)",
                 visible |-> TRUE]
        s1 == set(s, [objects |-> Append(s.objects, line), selectedObjectId |-> id])
    IN <<s1>> \o ARScene_updateEquation(s1, id)

ARScene_addPlane(s, args, id, random) ==
    LET plane == [id |-> id,
                  type |-> "plane",
                  position |-> clone(positionOf(args)),
                  rotation |-> clone(rotationOf(args)),
                  color |-> color(random),
                  equation |-> "0x + 0y + 1z = 0",
                  visible |-> TRUE]
        s1 == set(s, [objects |-> Append(s.objects, plane), selectedObjectId |-> id])
    IN <<s1>> \o ARScene_updateEquation(s1, id)

ARScene_removeObject(s, id) ==
    << set(s, [objects |-> SelectSeq(s.objects, LAMBDA obj : obj.id # id),
               selectedObjectId |-> IF s.selectedObjectId = id
                                    THEN NULL ELSE s.selectedObjectId]) >>

ARScene_updateObjectPosition(s, id, position) ==
    LET s1 == set(s, [objects |-> [j \in 1..Len(s.objects) |->
                         IF s.objects[j].id = id
                         THEN [s.objects[j] EXCEPT !.position = clone(position)]
                         ELSE s.objects[j]]])
    IN <<s1>> \o ARScene_updateEquation(s1, id)

ARScene_updateObjectRotation(s, id, rotation) ==
    LET s1 == set(s, [objects |-> [j \in 1..Len(s.objects) |->
                         IF s.objects[j].id = id
                         THEN [s.objects[j] EXCEPT !.rotation = clone(rotation)]
                         ELSE s.objects[j]]])
    IN <<s1>> \o ARScene_updateEquation(s1, id)

ARScene_selectObject(s, id) == << set(s, [selectedObjectId |-> id]) >>

ARScene_toggleVisibility(s, id) ==
    << set(s, [objects |-> [j \in 1..Len(s.objects) |->
                  IF s.objects[j].id = id
                  THEN [s.objects[j] EXCEPT !.visible = ~s.objects[j].visible]
                  ELSE s.objects[j]]]) >>

-----------------------------------------------------------------------------
(* The three stores side by side.  Each store has its own generateUUID and    *)
(* Math.random: the k-th copy draws the ids of the first store shifted by k   *)
(* strides, and the caller passes each store the id that store gave the       *)
(* object.                                                                    *)

Stride == MaxCreated + 1

\* the id the k-th copy has given the object that the first store calls id
idIn(k, id) == IF id = NULL THEN NULL ELSE id + k * Stride

\* the value of Math.random() in the k-th copy, in units of 1/1000
randomIn(k) == (k * 1000) \div 3

\* the copies after the scene module published scenePub and ARScene.tsx arPub
inCopies(scenePub, arPub) ==
    IF copies = <<>> THEN copies
    ELSE << after(copies[1], scenePub), after(copies[2], arPub) >>

-----------------------------------------------------------------------------
(* The operations as steps of the store *)

idsOf(objs) == {objs[i].id : i \in 1..Len(objs)}

\* null in a ref or a useState value that otherwise holds a string or a Vector3: the
\* value v is <<v>>
Nothing == <<>>

\* the refs / useState values of a MathLine or MathPlane as it is mounted;
\* drag is "began" after the event that began its drag and "ended" after the
\* event that ended it
released ==
    [isDragging |-> FALSE, dragStartPoint |-> Nothing, objectStartPosition |-> Nothing,
     drag |-> ""]

\* the scene renders a component for each visible object of objs
shown(objs, id) == find(objs, id) # 0 /\ objs[find(objs, id)].visible

\* the components after the scene has rendered objs: the component of an
\* object that is not rendered is unmounted, and a later one starts anew
rendered(objs) ==
    IF components = <<>> THEN components
    ELSE << components[1],
            [id \in DOMAIN components[2] |->
                 IF shown(objs, id) THEN components[2][id] ELSE released] >>

stored(id) == id \in idsOf(objects)

\* one call: the handler runs to completion, publishing pub
Call(op, id, args, pub, ret) ==
    /\ objects' = after(Store, pub).objects
    /\ selectedObjectId' = after(Store, pub).selectedObjectId
    /\ published' = pub
    /\ removed' = removed \cup (idsOf(objects) \ idsOf(after(Store, pub).objects))
    /\ lastOp' = [op |-> op, id |-> id, args |-> args, ret |-> ret,
                  found |-> stored(id), selected |-> selectedObjectId]
    /\ components' = rendered(after(Store, pub).objects)
    /\ UNCHANGED <<deps, dragControls>>

\* the objects the store holds after id was created from the caller's objects
created(id) ==
    [cellOf EXCEPT ![id] = [position |-> cloneCell("caller"),
                            rotation |-> cloneCell("caller")]]

\* the objects the store holds after a field of id was replaced
replaced(id, field) ==
    IF stored(id) THEN [cellOf EXCEPT ![id][field] = cloneCell("caller")] ELSE cellOf

addLine(args, random) ==
    /\ Call("addLine", NULL, args,
            addLine_sets(Store, args, generateUUID, random), addReturn(generateUUID))
    /\ nextId' = nextId + 1
    /\ cellOf' = created(generateUUID)
    /\ copies' = inCopies(
           sceneModule_addLine(copies[1], args, idIn(1, generateUUID), randomIn(1)),
           ARScene_addLine(copies[2], args, idIn(2, generateUUID), randomIn(2)))
    /\ UNCHANGED scratch

addPlane(args, random) ==
    /\ Call("addPlane", NULL, args,
            addPlane_sets(Store, args, generateUUID, random), addReturn(generateUUID))
    /\ nextId' = nextId + 1
    /\ cellOf' = created(generateUUID)
    /\ copies' = inCopies(
           sceneModule_addPlane(copies[1], args, idIn(1, generateUUID), randomIn(1)),
           ARScene_addPlane(copies[2], args, idIn(2, generateUUID), randomIn(2)))
    /\ UNCHANGED scratch

removeObject(id) ==
    /\ Call("removeObject", id, <<>>, removeObject_sets(Store, id), UNDEFINED)
    /\ copies' = inCopies(sceneModule_removeObject(copies[1], idIn(1, id)),
                          ARScene_removeObject(copies[2], idIn(2, id)))
    /\ UNCHANGED <<nextId, scratch, cellOf>>

updateObjectPosition(id, position) ==
    /\ Call("updateObjectPosition", id, <<position>>,
            updateObjectPosition_sets(Store, id, position), UNDEFINED)
    /\ cellOf' = replaced(id, "position")
    /\ copies' = inCopies(
           sceneModule_updateObjectPosition(copies[1], idIn(1, id), position),
           ARScene_updateObjectPosition(copies[2], idIn(2, id), position))
    /\ UNCHANGED <<nextId, scratch>>

updateObjectRotation(id, rotation) ==
    /\ Call("updateObjectRotation", id, <<rotation>>,
            updateObjectRotation_sets(Store, id, rotation), UNDEFINED)
    /\ cellOf' = replaced(id, "rotation")
    /\ copies' = inCopies(
           sceneModule_updateObjectRotation(copies[1], idIn(1, id), rotation),
           ARScene_updateObjectRotation(copies[2], idIn(2, id), rotation))
    /\ UNCHANGED <<nextId, scratch>>

updateEquation(id) ==
    /\ Call("updateEquation", id, <<>>, updateEquation_sets(Store, id), UNDEFINED)
    /\ copies' = inCopies(sceneModule_updateEquation(copies[1], idIn(1, id)),
                          ARScene_updateEquation(copies[2], idIn(2, id)))
    /\ UNCHANGED <<nextId, scratch, cellOf>>

selectObject(id) ==
    /\ Call("selectObject", id, <<>>, selectObject_sets(Store, id), UNDEFINED)
    /\ copies' = inCopies(sceneModule_selectObject(copies[1], idIn(1, id)),
                          ARScene_selectObject(copies[2], idIn(2, id)))
    /\ UNCHANGED <<nextId, scratch, cellOf>>

toggleVisibility(id) ==
    /\ Call("toggleVisibility", id, <<>>, toggleVisibility_sets(Store, id), UNDEFINED)
    /\ copies' = inCopies(sceneModule_toggleVisibility(copies[1], idIn(1, id)),
                          ARScene_toggleVisibility(copies[2], idIn(2, id)))
    /\ UNCHANGED <<nextId, scratch, cellOf>>

\* the objects of the collection after the Vector3 / Euler that is the field of
\* the object id was given the value v in place: every object whose field is
\* that same Vector3 / Euler shows v, with the equation it had
written(id, field, v) ==
    [j \in 1..Len(objects) |->
        IF \/ objects[j].id = id
           \/ cellOf[id][field] = "caller" /\ cellOf[objects[j].id][field] = "caller"
        THEN [objects[j] EXCEPT ![field] = v]
        ELSE objects[j]]

\* the caller changes its own Vector3 / Euler in place
callerSets(field, v) ==
    /\ v # scratch[field]
    /\ scratch' = [scratch EXCEPT ![field] = v]
    /\ objects' = [j \in 1..Len(objects) |->
                       IF cellOf[objects[j].id][field] = "caller"
                       THEN [objects[j] EXCEPT ![field] = v]
                       ELSE objects[j]]
    /\ published' = <<>>
    /\ lastOp' = [op |-> "callerSets", id |-> NULL, args |-> <<field, v>>,
                  ret |-> UNDEFINED, found |-> FALSE, selected |-> selectedObjectId]
    /\ UNCHANGED <<selectedObjectId, nextId, removed, cellOf, copies, deps, dragControls,
                   components>>

\* the caller reads the position / rotation of a stored object from the
\* collection and changes the Vector3 / Euler it got in place
readAndSet(id, field, v) ==
    /\ stored(id)
    /\ objects' = written(id, field, v)
    /\ scratch' = IF cellOf[id][field] = "caller"
                  THEN [scratch EXCEPT ![field] = v] ELSE scratch
    /\ published' = <<>>
    /\ lastOp' = [op |-> "readAndSet", id |-> id, args |-> <<field, v>>,
                  ret |-> UNDEFINED, found |-> TRUE, selected |-> selectedObjectId]
    /\ UNCHANGED <<selectedObjectId, nextId, removed, cellOf, copies, deps, dragControls,
                   components>>

-----------------------------------------------------------------------------
(* Spec: the store under every sequence of calls, with every pose of the inputs *)

\* the ids a caller can pass: every id that is drawn at some time, stored or not
Ids == 1..MaxCreated

\* a store whose selection starts out undefined
initialState_selected == [objects |-> <<>>, selectedObjectId |-> UNDEFINED]

\* the state create() is given: objects: [], selectedObjectId: null
initialState == [objects |-> <<>>, selectedObjectId |-> NULL]

\* the module of the store has been loaded: create() has run, no operation has
storeCreated ==
    /\ objects = initialState.objects
    /\ selectedObjectId = initialState.selectedObjectId
    /\ nextId = 1
    /\ published = <<>>
    /\ removed = {}
    /\ lastOp = [op |-> "create", id |-> NULL, args |-> <<>>, ret |-> UNDEFINED,
                 found |-> FALSE, selected |-> NULL]
    /\ scratch = [position |-> positionOf(<<>>), rotation |-> rotationOf(<<>>)]
    /\ cellOf = [id \in 1..(MaxCreated + 1) |-> [position |-> "store", rotation |-> "store"]]

Init ==
    /\ storeCreated
    /\ copies = <<>>
    /\ deps = UNDEFINED
    /\ dragControls = <<>>
    /\ components = <<>>

Next ==
    \/ \E args \in AddArgs, random \in Randoms :
           nextId <= MaxCreated /\ addLine(args, random)
    \/ \E args \in AddArgs, random \in Randoms :
           nextId <= MaxCreated /\ addPlane(args, random)
    \/ \E id \in Ids : removeObject(id)
    \/ \E id \in Ids, position \in Positions : updateObjectPosition(id, position)
    \/ \E id \in Ids, rotation \in Rotations : updateObjectRotation(id, rotation)
    \/ \E id \in Ids : updateEquation(id)
    \/ \E id \in Ids \cup {NULL} : selectObject(id)
    \/ \E id \in Ids : toggleVisibility(id)

Spec == Init /\ [][Next]_vars

-----------------------------------------------------------------------------
(* SpecOrder: one more object; every object is a line created with the     *)
(* default pose, and is moved but never rotated away from it               *)

OrderIds == 1..(MaxCreated + 1)

NextOrder ==
    \/ \E random \in Randoms : nextId <= MaxCreated + 1 /\ addLine(<<>>, random)
    \/ \E id \in OrderIds : removeObject(id)
    \/ \E id \in OrderIds, position \in Positions : updateObjectPosition(id, position)
    \/ \E id \in OrderIds : updateObjectRotation(id, rotationOf(<<>>))
    \/ \E id \in OrderIds : updateEquation(id)
    \/ \E id \in OrderIds \cup {NULL} : selectObject(id)
    \/ \E id \in OrderIds : toggleVisibility(id)

SpecOrder == Init /\ [][NextOrder]_vars

-----------------------------------------------------------------------------
(* SpecColor: two values of Math.random(); every object is created with the *)
(* default pose, and is moved but never rotated away from it                *)

\* Math.random(), in units of 1/1000
Hues == {0, 999}

NextColor ==
    \/ \E random \in Hues : nextId <= MaxCreated /\ addLine(<<>>, random)
    \/ \E random \in Hues : nextId <= MaxCreated /\ addPlane(<<>>, random)
    \/ \E id \in Ids : removeObject(id)
    \/ \E id \in Ids, position \in Positions : updateObjectPosition(id, position)
    \/ \E id \in Ids : updateObjectRotation(id, rotationOf(<<>>))
    \/ \E id \in Ids : updateEquation(id)
    \/ \E id \in Ids \cup {NULL} : selectObject(id)
    \/ \E id \in Ids : toggleVisibility(id)

SpecColor == Init /\ [][NextColor]_vars

-----------------------------------------------------------------------------
(* SpecHue: objects created one at a time with every value of Math.random() *)

\* Math.random(), in units of 1/1000: every value from 0 up to, not
\* including, 1
Thousandths == 0..999

NextHue ==
    \/ \E random \in Thousandths :
           nextId <= MaxCreated /\ objects = <<>> /\ addLine(<<>>, random)
    \/ \E random \in Thousandths :
           nextId <= MaxCreated /\ objects = <<>> /\ addPlane(<<>>, random)
    \/ \E id \in Ids : removeObject(id)

SpecHue == Init /\ [][NextHue]_vars

-----------------------------------------------------------------------------
(* SpecClone: a caller that passes its own Vector3 and Euler to the store and *)
(* changes them in place between the calls                                   *)

NextClone ==
    \/ \E random \in Randoms :
           nextId <= MaxCreated /\ addLine(<<scratch.position, scratch.rotation>>, random)
    \/ \E random \in Randoms :
           nextId <= MaxCreated /\ addPlane(<<scratch.position, scratch.rotation>>, random)
    \/ \E id \in Ids : updateObjectPosition(id, scratch.position)
    \/ \E id \in Ids : updateObjectRotation(id, scratch.rotation)
    \/ \E position \in Positions : callerSets("position", position)
    \/ \E rotation \in Rotations : callerSets("rotation", rotation)

SpecClone == Init /\ [][NextClone]_vars

-----------------------------------------------------------------------------
(* SpecRead: that caller; it also changes in place what it reads from the     *)
(* collection                                                                *)

NextRead ==
    \/ \E random \in Randoms :
           nextId <= MaxCreated /\ addLine(<<scratch.position, scratch.rotation>>, random)
    \/ \E random \in Randoms :
           nextId <= MaxCreated /\ addPlane(<<scratch.position, scratch.rotation>>, random)
    \/ \E id \in Ids : updateObjectPosition(id, scratch.position)
    \/ \E id \in Ids : updateObjectRotation(id, scratch.rotation)
    \/ \E position \in Positions : callerSets("position", position)
    \/ \E rotation \in Rotations : callerSets("rotation", rotation)
    \/ \E id \in Ids, position \in Positions : readAndSet(id, "position", position)
    \/ \E id \in Ids, rotation \in Rotations : readAndSet(id, "rotation", rotation)

SpecRead == Init /\ [][NextRead]_vars

-----------------------------------------------------------------------------
(* SpecFormat: the equations of one object at a time, over FormatPositions   *)
(* and FormatRotations                                                       *)

NextFormat ==
    \/ \E args \in FormatAddArgs, random \in Randoms :
           nextId <= MaxCreated /\ objects = <<>> /\ addLine(args, random)
    \/ \E args \in FormatAddArgs, random \in Randoms :
           nextId <= MaxCreated /\ objects = <<>> /\ addPlane(args, random)
    \/ \E id \in Ids : removeObject(id)
    \/ \E id \in Ids, position \in FormatPositions : updateObjectPosition(id, position)
    \/ \E id \in Ids, rotation \in FormatRotations : updateObjectRotation(id, rotation)

SpecFormat == Init /\ [][NextFormat]_vars

-----------------------------------------------------------------------------
(* SpecResize: every operation of the store; every object is created with   *)
(* the default pose, and is moved but never rotated away from it            *)

NextResize ==
    \/ \E random \in Randoms : nextId <= MaxCreated /\ addLine(<<>>, random)
    \/ \E random \in Randoms : nextId <= MaxCreated /\ addPlane(<<>>, random)
    \/ \E id \in Ids : removeObject(id)
    \/ \E id \in Ids, position \in Positions : updateObjectPosition(id, position)
    \/ \E id \in Ids : updateObjectRotation(id, rotationOf(<<>>))
    \/ \E id \in Ids : updateEquation(id)
    \/ \E id \in Ids \cup {NULL} : selectObject(id)
    \/ \E id \in Ids : toggleVisibility(id)

SpecResize == Init /\ [][NextResize]_vars

-----------------------------------------------------------------------------
(* SpecCopies: the three definitions of the store are given the same calls;  *)
(* addLine and addPlane are always given a position and a rotation, and at   *)
(* most two objects are stored at a time                                     *)

ExplicitArgs == AddArgs \ {<<>>}

InitCopies ==
    /\ storeCreated
    /\ copies = <<initialState, initialState>>
    /\ deps = UNDEFINED
    /\ dragControls = <<>>
    /\ components = <<>>

NextCopies ==
    \/ \E args \in ExplicitArgs, random \in Randoms :
           nextId <= MaxCreated /\ Len(objects) <= 1 /\ addLine(args, random)
    \/ \E args \in ExplicitArgs, random \in Randoms :
           nextId <= MaxCreated /\ Len(objects) <= 1 /\ addPlane(args, random)
    \/ \E id \in Ids : removeObject(id)
    \/ \E id \in Ids, position \in Positions : updateObjectPosition(id, position)
    \/ \E id \in Ids, rotation \in Rotations : updateObjectRotation(id, rotation)
    \/ \E id \in Ids : updateEquation(id)
    \/ \E id \in Ids \cup {NULL} : selectObject(id)
    \/ \E id \in Ids : toggleVisibility(id)

SpecCopies == InitCopies /\ [][NextCopies]_vars

-----------------------------------------------------------------------------
(* SpecScene: the ARScene component with its effect, and the user at the     *)
(* control panel and at the objects.  A change of the store renders the      *)
(* component in the same task, and the effect runs with that render, before  *)
(* the next event of the user is handled.                                    *)

\* an effect that runs on mount only, as with the dependencies []
effectRuns_onMount == deps = UNDEFINED

\* useEffect(..., [objects.length]): the effect runs with a render whose
\* objects.length is not the one of the last run
effectRuns == deps # Len(objects)

\* the effect with objects.length === 0: addLine(...) and then addPlane(...)
ARScene_addsSamples(sample, random) ==
    LET withLine == addLine_sets(Store, sample[1], generateUUID, random)
        withPlane == addPlane_sets(after(Store, withLine), sample[2],
                                   generateUUID + 1, random)
    IN /\ effectRuns
       /\ Len(objects) = 0
       /\ deps' = Len(objects)
       /\ objects' = after(Store, withLine \o withPlane).objects
       /\ selectedObjectId' = after(Store, withLine \o withPlane).selectedObjectId
       /\ published' = withLine \o withPlane
       /\ lastOp' = [op |-> "addPlane", id |-> NULL, args |-> sample[2],
                     ret |-> addReturn(generateUUID + 1), found |-> FALSE,
                     selected |-> after(Store, withLine).selectedObjectId]
       /\ nextId' = nextId + 2
       /\ UNCHANGED <<removed, scratch, cellOf, copies, dragControls, components>>

\* the effect with another objects.length: its body does nothing
ARScene_skips ==
    /\ effectRuns
    /\ Len(objects) # 0
    /\ deps' = Len(objects)
    /\ UNCHANGED <<objects, selectedObjectId, nextId, published, removed, lastOp,
                   scratch, cellOf, copies, dragControls, components>>

ARScene_effect ==
    \/ \E sample \in Samples, random \in Randoms : ARScene_addsSamples(sample, random)
    \/ ARScene_skips

\* the user's next event is handled: no render is due
handled == ~effectRuns

NextScene ==
    \/ ARScene_effect
    \/ \E random \in Randoms :
           handled /\ nextId <= MaxCreated + 1 /\ addLine(<<>>, random)
    \/ \E random \in Randoms :
           handled /\ nextId <= MaxCreated + 1 /\ addPlane(<<>>, random)
    \/ handled /\ nextId <= MaxCreated + 1 /\ selectedObjectId # NULL
           /\ removeObject(selectedObjectId)
    \/ \E id \in idsOf(objects) : handled /\ selectObject(id)

SpecScene == Init /\ [][NextScene]_vars

\* a render that is due is made
SpecSceneLive == SpecScene /\ WF_vars(ARScene_effect)

-----------------------------------------------------------------------------
(* SpecDrag: the DragControls component, mounted, with the events of a       *)
(* controller and the frames, beside callers that add, select and remove     *)
(* objects.  Its handlers see the store and the useState values as they are. *)

\* controller.matrixWorld's position at an event or a frame
ControllerPositions == {Vector3(0, 0, 0), Vector3(0, SCALE \div 2, 0)}

\* the positions of the objects of SpecDrag
DragPositions == {Vector3(0, 0, 0), Vector3(0, SCALE \div 2, 0), Vector3(0, SCALE, 0)}

DragArgs == {<<Vector3(0, 0, 0), Euler(0, 0, 0)>>,
             <<Vector3(0, SCALE \div 2, 0), Euler(0, 0, 0)>>}

\* Vector3.add, Vector3.subVectors
add(a, b) == Vector3(a.x + b.x, a.y + b.y, a.z + b.z)
subVectors(a, b) == Vector3(a.x - b.x, a.y - b.y, a.z - b.z)

\* an angle in radians, as an Euler component holds it, in eighths of a turn
eighths(radians) == RoundDiv(radians * 4 * 113, 355 * SCALE)

\* useState(false), useState(null): the values of the first render; grabbed is
\* history, the id that was selected at the last selectstart that began a drag
mounted ==
    [isDragging |-> FALSE, dragType |-> Nothing,
     startControllerPosition |-> Nothing, startObjectPosition |-> Nothing,
     grabbed |-> NULL]

\* a selectstart that begins a rotation
handleSelectStart_rotates(controllerPosition, selectedObject) ==
    [isDragging |-> TRUE, dragType |-> <<"rotate">>,
     startControllerPosition |-> <<controllerPosition>>,
     startObjectPosition |-> <<clone(selectedObject.position)>>,
     grabbed |-> selectedObject.id]

\* the useState values handleSelectStart sets for the selected object
handleSelectStart_sets(controllerPosition, selectedObject) ==
    [isDragging |-> TRUE, dragType |-> <<"move">>,
     startControllerPosition |-> <<controllerPosition>>,
     startObjectPosition |-> <<clone(selectedObject.position)>>,
     grabbed |-> selectedObject.id]

\* "selectstart" on a controller
handleSelectStart(controllerPosition) ==
    /\ selectedObjectId # NULL
    /\ find(objects, selectedObjectId) # 0
    /\ dragControls' = handleSelectStart_sets(controllerPosition,
                                              objects[find(objects, selectedObjectId)])
    /\ UNCHANGED <<objects, selectedObjectId, nextId, published, removed, lastOp,
                   scratch, cellOf, copies, deps, components>>

\* a selectend that ends the drag but keeps the start positions
handleSelectEnd_keepsStart ==
    /\ dragControls' = [dragControls EXCEPT !.isDragging = FALSE,
                                            !.dragType = Nothing]
    /\ UNCHANGED <<objects, selectedObjectId, nextId, published, removed, lastOp,
                   scratch, cellOf, copies, deps, components>>

\* "selectend" on a controller
handleSelectEnd ==
    /\ dragControls' = [dragControls EXCEPT !.isDragging = FALSE,
                                            !.dragType = Nothing,
                                            !.startControllerPosition = Nothing,
                                            !.startObjectPosition = Nothing]
    /\ UNCHANGED <<objects, selectedObjectId, nextId, published, removed, lastOp,
                   scratch, cellOf, copies, deps, components>>

\* the rotation of the "rotate" branch: rotX = delta.y * 2, rotY = delta.x * 2
newRotation(rotation, delta) ==
    Euler(rotation.x + eighths(delta.y * 2), rotation.y + eighths(delta.x * 2), rotation.z)

\* a frame during a drag, with the controller at controllerPosition; the
\* positions it gives are kept within DragPositions
useFrame(controllerPosition) ==
    /\ dragControls.isDragging
    /\ selectedObjectId # NULL
    /\ find(objects, selectedObjectId) # 0
    /\ dragControls.startControllerPosition # Nothing
    /\ dragControls.startObjectPosition # Nothing
    /\ LET delta == subVectors(controllerPosition, dragControls.startControllerPosition[1])
           selectedObject == objects[find(objects, selectedObjectId)]
       IN IF dragControls.dragType = <<"move">>
          THEN /\ add(dragControls.startObjectPosition[1], delta) \in DragPositions
               /\ updateObjectPosition(selectedObjectId,
                                       add(dragControls.startObjectPosition[1], delta))
          ELSE IF dragControls.dragType = <<"rotate">>
          THEN updateObjectRotation(selectedObjectId,
                                    newRotation(selectedObject.rotation, delta))
          ELSE UNCHANGED vars

InitDrag ==
    /\ storeCreated
    /\ copies = <<>>
    /\ deps = UNDEFINED
    /\ dragControls = mounted
    /\ components = <<>>

NextDrag ==
    \/ \E args \in DragArgs, random \in Randoms :
           nextId <= MaxCreated /\ addLine(args, random)
    \/ \E args \in DragArgs, random \in Randoms :
           nextId <= MaxCreated /\ addPlane(args, random)
    \/ \E id \in Ids : removeObject(id)
    \/ \E id \in Ids \cup {NULL} : selectObject(id)
    \/ \E controllerPosition \in ControllerPositions : handleSelectStart(controllerPosition)
    \/ handleSelectEnd
    \/ \E controllerPosition \in ControllerPositions : useFrame(controllerPosition)

SpecDrag == InitDrag /\ [][NextDrag]_vars

-----------------------------------------------------------------------------
(* SpecComponents: the MathLine and MathPlane components of one of the two   *)
(* scenes, with the pointer events (the scene module) or the controller      *)
(* events and the frames (ARScene.tsx), beside callers that add, select,     *)
(* hide and remove objects.  A component is rendered with the store as it is *)
(* before the next event or frame.  At most two objects are stored at a     *)
(* time.                                                                     *)

\* the scene module, whose components take pointer events, and ARScene.tsx,
\* whose components take the events of a controller
Scenes == {"part_000", "ARScene.tsx"}

\* e.point of a pointer event
Points == {Vector3(0, 0, 0), Vector3(0, SCALE \div 2, 0)}

\* the refs / useState values of the component of id
component(id) == components[2][id]

\* the prop isSelected of the component of id
isSelected(id) == id = selectedObjectId

\* the components with those of id set to c
withComponent(id, c) == << components[1], [components[2] EXCEPT ![id] = c] >>

\* onPointerDown: the refs of a MathLine, which keeps where the drag began,
\* and of a MathPlane, which does not
onPointerDown_sets(mathObject, point) ==
    IF mathObject.type = "line"
    THEN [isDragging |-> TRUE, dragStartPoint |-> <<clone(point)>>,
          objectStartPosition |-> <<clone(mathObject.position)>>, drag |-> "began"]
    ELSE [released EXCEPT !.isDragging = TRUE, !.drag = "began"]

\* onPointerDown on the handle of a MathLine or on the mesh of a MathPlane
onPointerDown(id, point) ==
    /\ components[1] = "part_000"
    /\ shown(objects, id)
    /\ isSelected(id)
    /\ ~component(id).isDragging
    /\ components' = withComponent(id, onPointerDown_sets(objects[find(objects, id)], point))
    /\ UNCHANGED <<objects, selectedObjectId, nextId, published, removed, lastOp,
                   scratch, cellOf, copies, deps, dragControls>>

\* onPointerMove: a MathLine is put at where it was plus the way of the
\* pointer, a MathPlane at the pointer; the positions are kept within
\* DragPositions
onPointerMove(id, point) ==
    /\ components[1] = "part_000"
    /\ shown(objects, id)
    /\ isSelected(id)
    /\ component(id).isDragging
    /\ IF objects[find(objects, id)].type = "line"
       THEN /\ component(id).dragStartPoint # Nothing
            /\ component(id).objectStartPosition # Nothing
            /\ LET dragDelta == subVectors(point, component(id).dragStartPoint[1])
                   newPosition == add(clone(component(id).objectStartPosition[1]), dragDelta)
               IN /\ newPosition \in DragPositions
                  /\ updateObjectPosition(id, newPosition)
       ELSE updateObjectPosition(id, point)

\* onPointerUp
onPointerUp(id) ==
    /\ components[1] = "part_000"
    /\ shown(objects, id)
    /\ components' = withComponent(id, [released EXCEPT !.drag = "ended"])
    /\ UNCHANGED <<objects, selectedObjectId, nextId, published, removed, lastOp,
                   scratch, cellOf, copies, deps, dragControls>>

\* onPointerLeave
onPointerLeave(id) ==
    /\ components[1] = "part_000"
    /\ shown(objects, id)
    /\ components' = withComponent(id, [released EXCEPT !.drag = "ended"])
    /\ UNCHANGED <<objects, selectedObjectId, nextId, published, removed, lastOp,
                   scratch, cellOf, copies, deps, dragControls>>

\* a selectstart that begins a drag of an object that is not the selected one
onSelectStart_unselected(id) ==
    /\ components[1] = "ARScene.tsx"
    /\ shown(objects, id)
    /\ components' = withComponent(id, [component(id) EXCEPT !.isDragging = TRUE,
                                                            !.drag = "began"])
    /\ UNCHANGED <<objects, selectedObjectId, nextId, published, removed, lastOp,
                   scratch, cellOf, copies, deps, dragControls>>

\* onSelectStart of the Interactive of a MathLine or MathPlane
onSelectStart(id) ==
    /\ components[1] = "ARScene.tsx"
    /\ shown(objects, id)
    /\ isSelected(id)
    /\ components' = withComponent(id, [component(id) EXCEPT !.isDragging = TRUE,
                                                            !.drag = "began"])
    /\ UNCHANGED <<objects, selectedObjectId, nextId, published, removed, lastOp,
                   scratch, cellOf, copies, deps, dragControls>>

\* onSelectEnd of the Interactive of a MathLine or MathPlane
onSelectEnd(id) ==
    /\ components[1] = "ARScene.tsx"
    /\ shown(objects, id)
    /\ components' = withComponent(id, [component(id) EXCEPT !.isDragging = FALSE,
                                                            !.drag = "ended"])
    /\ UNCHANGED <<objects, selectedObjectId, nextId, published, removed, lastOp,
                   scratch, cellOf, copies, deps, dragControls>>

\* a frame of a MathLine or MathPlane of ARScene.tsx with a controller at
\* controllerPos
onFrame(id, controllerPos) ==
    /\ components[1] = "ARScene.tsx"
    /\ shown(objects, id)
    /\ component(id).isDragging
    /\ updateObjectPosition(id, controllerPos)

\* the "Toggle Visibility" button of the ControlPanel, which is rendered while
\* an id is selected
ControlPanel_toggleVisibility ==
    /\ selectedObjectId # NULL
    /\ toggleVisibility(selectedObjectId)

InitComponents ==
    /\ storeCreated
    /\ copies = <<>>
    /\ deps = UNDEFINED
    /\ dragControls = <<>>
    /\ \E scene \in Scenes : components = <<scene, [id \in Ids |-> released]>>

NextComponents ==
    \/ \E args \in DragArgs, random \in Randoms :
           nextId <= MaxCreated /\ Len(objects) <= 1 /\ addLine(args, random)
    \/ \E args \in DragArgs, random \in Randoms :
           nextId <= MaxCreated /\ Len(objects) <= 1 /\ addPlane(args, random)
    \/ \E id \in Ids : removeObject(id)
    \/ \E id \in Ids \cup {NULL} : selectObject(id)
    \/ \E id \in Ids : toggleVisibility(id)
    \/ ControlPanel_toggleVisibility
    \/ \E id \in Ids, point \in Points : onPointerDown(id, point)
    \/ \E id \in Ids, point \in Points : onPointerMove(id, point)
    \/ \E id \in Ids : onPointerUp(id)
    \/ \E id \in Ids : onPointerLeave(id)
    \/ \E id \in Ids : onSelectStart(id)
    \/ \E id \in Ids : onSelectEnd(id)
    \/ \E id \in Ids, controllerPos \in ControllerPositions : onFrame(id, controllerPos)

SpecComponents == InitComponents /\ [][NextComponents]_vars

-----------------------------------------------------------------------------
(* Properties *)

Adds == {"addLine", "addPlane"}

last(objs) == objs[Len(objs)]

\* the object with this id, which is stored
object(id) == objects[find(objects, id)]

consistent(objs) == \A i \in 1..Len(objs) : objs[i].equation = computeEquation(objs[i])

\* C1: after every operation each stored object carries the equation of its
\* type, position and rotation; after updateObjectPosition(id, p) the object id
\* has position p and the equation of p
EquationFollowsPose ==
    /\ consistent(objects)
    /\ (lastOp.op = "updateObjectPosition" /\ lastOp.found) =>
           /\ stored(lastOp.id)
           /\ object(lastOp.id).position = lastOp.args[1]
           /\ object(lastOp.id).equation =
                  Equations[object(lastOp.id).type,
                            <<lastOp.args[1], object(lastOp.id).rotation>>]

\* updateObjectPosition has moved a stored object, and its equation has changed
MovedAndReformatted ==
    /\ lastOp.op = "updateObjectPosition"
    /\ lastOp.found
    /\ object(lastOp.id).position = lastOp.args[1]
    /\ published[1].objects[find(objects, lastOp.id)].equation
           # object(lastOp.id).equation

SelectionValid == selectedObjectId = NULL \/ stored(selectedObjectId)

\* C2 as stated: the selection is null or the id of a stored object
SelectionAlwaysValid == SelectionValid

\* C2 amended: every operation keeps a valid selection valid, except
\* selectObject called with an id that is not stored, which selects that id;
\* removing the selected object clears the selection
SelectionStaysValid ==
    [][/\ (SelectionValid /\ ~(lastOp'.op = "selectObject" /\ ~lastOp'.found))
              => SelectionValid'
       /\ (lastOp'.op = "selectObject") => selectedObjectId' = lastOp'.id
       /\ (lastOp'.op = "removeObject" /\ selectedObjectId = lastOp'.id)
              => selectedObjectId' = NULL]_vars

\* the selected object has been removed, and nothing is selected
SelectedRemoved ==
    /\ lastOp.op = "removeObject"
    /\ lastOp.found
    /\ lastOp.selected = lastOp.id
    /\ selectedObjectId = NULL

\* C3: the ids of the stored objects are pairwise distinct
IdsDistinct ==
    \A i, j \in 1..Len(objects) : i # j => objects[i].id # objects[j].id

\* two objects are stored, the second one just added
TwoStored == Len(objects) >= 2 /\ lastOp.op \in Adds

Mutators == {"removeObject", "updateObjectPosition", "updateObjectRotation",
             "updateEquation", "selectObject", "toggleVisibility"}

\* C4 as stated: a mutator called with an id that is not stored changes neither
\* the collection nor the selection
AbsentIdChangesNothing ==
    [][(lastOp'.op \in Mutators /\ lastOp'.id # NULL /\ ~lastOp'.found)
           => (objects' = objects /\ selectedObjectId' = selectedObjectId)]_vars

\* C4 amended: removeObject, updateObjectPosition, updateObjectRotation,
\* updateEquation and toggleVisibility called with an id that is not stored leave
\* the collection unchanged, and the selection too, except that removeObject
\* clears a selection equal to its id; selectObject with such an id leaves the
\* collection unchanged and selects the id
AbsentIdLeavesObjects ==
    [][(lastOp'.op \in Mutators /\ lastOp'.id # NULL /\ ~lastOp'.found)
           => /\ objects' = objects
              /\ selectedObjectId' =
                     IF lastOp'.op = "selectObject" THEN lastOp'.id
                     ELSE IF lastOp'.op = "removeObject" /\ selectedObjectId = lastOp'.id
                          THEN NULL
                          ELSE selectedObjectId]_vars

\* removeObject has been called with an id that is not stored, while objects are
\* stored and one of them is selected
RemovedAbsent ==
    /\ lastOp.op = "removeObject"
    /\ ~lastOp.found
    /\ Len(objects) >= 1
    /\ stored(selectedObjectId)

\* C5: removeObject(id) clears the selection when id was selected and leaves
\* the selection as it was otherwise
RemoveKeepsOtherSelection ==
    lastOp.op = "removeObject" =>
        selectedObjectId = IF lastOp.selected = lastOp.id THEN NULL ELSE lastOp.selected

\* a stored object has been removed while another one was selected
RemovedUnselected ==
    /\ lastOp.op = "removeObject"
    /\ lastOp.found
    /\ lastOp.selected # NULL
    /\ lastOp.selected # lastOp.id
    /\ selectedObjectId = lastOp.selected

\* C6: the collection lists the stored objects in the order of their creation
\* (generateUUID returns its n-th id on the n-th creation, so an id is the
\* creation rank of its object)
CreationOrder ==
    \A i, j \in 1..Len(objects) : i < j => objects[i].id < objects[j].id

\* the middle one of three objects has been removed
MiddleRemoved ==
    /\ lastOp.op = "removeObject"
    /\ lastOp.found
    /\ Len(objects) = 2
    /\ objects[1].id < lastOp.id
    /\ lastOp.id < objects[2].id

\* C7: no state published during an operation holds an object whose equation
\* is not the one of its pose
NoTornSnapshot ==
    \A k \in 1..Len(published) : consistent(published[k].objects)

\* C8: addLine / addPlane append one object to the collection, of the type of
\* the call, with the given position and rotation, visible, with the equation
\* of that pose, select it, and leave the other objects as they were
AddAppendsOne ==
    [][lastOp'.op \in Adds
           => /\ Len(objects') = Len(objects) + 1
              /\ SubSeq(objects', 1, Len(objects)) = objects
              /\ last(objects').type = (IF lastOp'.op = "addLine" THEN "line" ELSE "plane")
              /\ Len(lastOp'.args) = 2 =>
                     /\ last(objects').position = lastOp'.args[1]
                     /\ last(objects').rotation = lastOp'.args[2]
              /\ last(objects').visible
              /\ last(objects').equation = computeEquation(last(objects'))
              /\ last(objects').id \notin idsOf(objects)
              /\ selectedObjectId' = last(objects').id]_vars

\* addPlane with a position and a rotation has appended a plane to a line
PlaneAppended ==
    /\ lastOp.op = "addPlane"
    /\ Len(lastOp.args) = 2
    /\ Len(objects) = 2
    /\ objects[1].type = "line"
    /\ objects[2].type = "plane"
    /\ objects[2].position = lastOp.args[1]
    /\ selectedObjectId = objects[2].id

\* C9 as stated: addLine / addPlane return the id of the object they created
AddReturnsId ==
    lastOp.op \in Adds =>
        /\ lastOp.ret = last(objects).id
        /\ lastOp.ret = selectedObjectId

\* C9 amended: addLine / addPlane return nothing; the id of the object they
\* created is the id of the last object of the collection and the selected id
AddReturnsNothing ==
    lastOp.op \in Adds =>
        /\ lastOp.ret = UNDEFINED
        /\ Len(objects) >= 1
        /\ selectedObjectId = last(objects).id

\* addLine has returned, and the line it created is selected
LineAddedAndSelected ==
    /\ lastOp.op = "addLine"
    /\ lastOp.ret = UNDEFINED
    /\ last(objects).type = "line"
    /\ selectedObjectId = last(objects).id

\* C10: the id of a removed object is never the id of a stored object again
IdNeverReused == \A i \in 1..Len(objects) : objects[i].id \notin removed

\* an object has been created after another one was removed
AddedAfterRemoval == removed # {} /\ lastOp.op \in Adds /\ Len(objects) >= 1

\* the ids and types of the objects, in the order of the collection
identities(objs) == [j \in 1..Len(objs) |-> <<objs[j].id, objs[j].type>>]

\* C11: an object keeps its id and its type: no step changes the type of an
\* object that is stored before and after it, and the operations that neither
\* add nor remove leave the ids and types of the collection as they were
IdAndKindKept ==
    [][/\ \A i \in 1..Len(objects), j \in 1..Len(objects') :
              objects[i].id = objects'[j].id => objects[i].type = objects'[j].type
       /\ lastOp'.op \notin (Adds \cup {"removeObject"})
              => identities(objects') = identities(objects)]_vars

\* a plane has been rotated away from the rotation it was created with
PlaneRotated ==
    /\ lastOp.op = "updateObjectRotation"
    /\ lastOp.found
    /\ object(lastOp.id).type = "plane"
    /\ object(lastOp.id).rotation = lastOp.args[1]
    /\ lastOp.args[1] # rotationOf(<<>>)

\* C12: the color of an object is the one it was created with: no step changes
\* the color of an object that is stored before and after it
ColorKept ==
    [][\A i \in 1..Len(objects), j \in 1..Len(objects') :
           objects[i].id = objects'[j].id => objects'[j].color = objects[i].color]_vars

\* one of two objects of different colors has been moved
MovedBesideOtherColor ==
    /\ lastOp.op = "updateObjectPosition"
    /\ lastOp.found
    /\ Len(objects) = 2
    /\ objects[1].color # objects[2].color
    /\ object(lastOp.id).position # positionOf(<<>>)

\* C13: updateObjectPosition(id, p) with id stored gives that object the
\* position p and the equation of p, and changes no other field of it, no other
\* object, neither the order nor the selection
PositionOnly ==
    [][(lastOp'.op = "updateObjectPosition" /\ lastOp'.found)
           => /\ selectedObjectId' = selectedObjectId
              /\ Len(objects') = Len(objects)
              /\ \A j \in 1..Len(objects) :
                     objects'[j] =
                         IF objects[j].id = lastOp'.id
                         THEN [objects[j] EXCEPT
                                  !.position = lastOp'.args[1],
                                  !.equation = computeEquation(
                                      [objects[j] EXCEPT !.position = lastOp'.args[1]])]
                         ELSE objects[j]]_vars

\* a hidden object has been moved while the other object was selected
MovedUnselected ==
    /\ lastOp.op = "updateObjectPosition"
    /\ lastOp.found
    /\ Len(objects) = 2
    /\ stored(selectedObjectId)
    /\ selectedObjectId # lastOp.id
    /\ ~object(lastOp.id).visible
    /\ object(lastOp.id).position # positionOf(<<>>)

\* C14: updateObjectRotation(id, r) with id stored gives that object the
\* rotation r and the equation of r, and changes no other field of it, no other
\* object, neither the order nor the selection
RotationOnly ==
    [][(lastOp'.op = "updateObjectRotation" /\ lastOp'.found)
           => /\ selectedObjectId' = selectedObjectId
              /\ Len(objects') = Len(objects)
              /\ \A j \in 1..Len(objects) :
                     objects'[j] =
                         IF objects[j].id = lastOp'.id
                         THEN [objects[j] EXCEPT
                                  !.rotation = lastOp'.args[1],
                                  !.equation = computeEquation(
                                      [objects[j] EXCEPT !.rotation = lastOp'.args[1]])]
                         ELSE objects[j]]_vars

\* a hidden object that had been moved has been rotated while the other object
\* was selected
RotatedUnselected ==
    /\ lastOp.op = "updateObjectRotation"
    /\ lastOp.found
    /\ Len(objects) = 2
    /\ stored(selectedObjectId)
    /\ selectedObjectId # lastOp.id
    /\ ~object(lastOp.id).visible
    /\ object(lastOp.id).position # positionOf(<<>>)
    /\ object(lastOp.id).rotation # rotationOf(<<>>)

\* C15: removeObject(id) with id stored removes that object and no other: no
\* object has the id afterwards, the collection is one shorter, and every
\* other object is stored as it was
RemovesExactlyOne ==
    [][(lastOp'.op = "removeObject" /\ lastOp'.found)
           => /\ lastOp'.id \notin idsOf(objects')
              /\ Len(objects') = Len(objects) - 1
              /\ \A i \in 1..Len(objects) :
                     objects[i].id # lastOp'.id
                         => \E j \in 1..Len(objects') : objects'[j] = objects[i]]_vars

\* the first of two objects has been removed, and the second one is stored
FirstRemoved ==
    /\ lastOp.op = "removeObject"
    /\ lastOp.found
    /\ Len(objects) = 1
    /\ lastOp.id < objects[1].id

\* C16: an object is created visible, and toggleVisibility(id) with id stored
\* negates the visible flag of that object and changes no other field of it, no
\* other object, neither the order nor the selection
ToggleOnly ==
    [][/\ lastOp'.op \in Adds => last(objects').visible
       /\ (lastOp'.op = "toggleVisibility" /\ lastOp'.found)
              => /\ selectedObjectId' = selectedObjectId
                 /\ Len(objects') = Len(objects)
                 /\ \A j \in 1..Len(objects) :
                        objects'[j] =
                            IF objects[j].id = lastOp'.id
                            THEN [objects[j] EXCEPT !.visible = ~objects[j].visible]
                            ELSE objects[j]]_vars

\* an object has been shown again while the other object stays hidden
ShownBesideHidden ==
    /\ lastOp.op = "toggleVisibility"
    /\ lastOp.found
    /\ Len(objects) = 2
    /\ object(lastOp.id).visible
    /\ \E j \in 1..2 : objects[j].id # lastOp.id /\ ~objects[j].visible

\* C17: selectObject(x) makes x the selection, whether x is the id of a stored
\* object, an id that is not stored or null, and leaves the collection as it was
SelectSetsAnyId ==
    [][lastOp'.op = "selectObject"
           => /\ selectedObjectId' = lastOp'.id
              /\ objects' = objects]_vars

\* an id that is not stored has been selected while an object is stored
SelectedAbsent ==
    /\ lastOp.op = "selectObject"
    /\ lastOp.id # NULL
    /\ ~lastOp.found
    /\ Len(objects) >= 1
    /\ selectedObjectId = lastOp.id

\* the store states that exist at some time: the ones the last operation
\* published, the equation of which may be an old one, and the current one
snapshots == {published[k] : k \in 1..Len(published)} \cup {Store}

\* the store state after updateEquation(id) is called in state s
updated(s, id) == after(s, updateEquation_sets(s, id))

\* C20: in every store state, an updateEquation(id) called after an
\* updateEquation(id) changes no field of the store, so the equation is the same
\* after the second call as after the first
UpdateEquationIdempotent ==
    \A s \in snapshots, id \in Ids :
        LET once == updated(s, id) IN updated(once, id) = once

\* a store state exists in which updateEquation changes the equation of an
\* object, and updateEquation has been called there
EquationWasStale ==
    /\ lastOp.op = "updateObjectRotation"
    /\ lastOp.found
    /\ Len(published) = 2
    /\ updated(published[1], lastOp.id) = published[2]
    /\ published[2] # published[1]

\* C18: the store clones what it is given: when the caller changes in place a
\* Vector3 / Euler it has passed to addLine, addPlane, updateObjectPosition or
\* updateObjectRotation, no stored position, rotation or equation changes
ClonedOnWrite ==
    [][lastOp'.op = "callerSets" => objects' = objects]_vars

\* the caller has changed in place the Vector3 it had passed to
\* updateObjectPosition, and the stored object has the position it was given
PassedThenChanged ==
    /\ lastOp.op = "callerSets"
    /\ lastOp.args[1] = "position"
    /\ Len(objects) = 2
    /\ objects[1].position # positionOf(<<>>)
    /\ objects[1].position # scratch.position
    /\ consistent(objects)

\* C19: the store owns the state of its objects: the position and the rotation
\* of a stored object change only in updateObjectPosition / updateObjectRotation,
\* and whatever the caller does to a value it has read from the collection,
\* every stored object keeps the equation of its pose
PosesOwnedByStore ==
    [][/\ lastOp'.op \notin {"updateObjectPosition", "updateObjectRotation"}
              => \A i \in 1..Len(objects), j \in 1..Len(objects') :
                     objects[i].id = objects'[j].id
                         => /\ objects'[j].position = objects[i].position
                            /\ objects'[j].rotation = objects[i].rotation
       /\ consistent(objects')]_vars

\* C21: a line at position (0,0,0) with zero rotation has the equation
\* "x = (0.0, 0.0, 0.0) + t·(1.0, 0.0, 0.0)", whether it was created there or
\* moved and rotated to it
LineAtOrigin ==
    \A j \in 1..Len(objects) :
        (/\ objects[j].type = "line"
         /\ objects[j].position = Vector3(0, 0, 0)
         /\ objects[j].rotation = Euler(0, 0, 0))
            => objects[j].equation = "x = (0.0, 0.0, 0.0) + t·(1.0, 0.0, 0.0)"

\* a line at the origin has been given the zero rotation by
\* updateObjectRotation
LineBackAtOrigin ==
    /\ lastOp.op = "updateObjectRotation"
    /\ lastOp.found
    /\ lastOp.args[1] = Euler(0, 0, 0)
    /\ object(lastOp.id).type = "line"
    /\ object(lastOp.id).position = Vector3(0, 0, 0)
    /\ object(lastOp.id).equation = "x = (0.0, 0.0, 0.0) + t·(1.0, 0.0, 0.0)"

\* C22: a plane at position (0,0,0) with zero rotation has the equation
\* "0.00x + 0.00y + 1.00z + 0.00 = 0": the offset, a negated zero, is printed
\* without a minus sign
PlaneAtOrigin ==
    \A j \in 1..Len(objects) :
        (/\ objects[j].type = "plane"
         /\ objects[j].position = Vector3(0, 0, 0)
         /\ objects[j].rotation = Euler(0, 0, 0))
            => objects[j].equation = "0.00x + 0.00y + 1.00z + 0.00 = 0"

\* a plane has been moved to the origin with the zero rotation
PlaneMovedToOrigin ==
    /\ lastOp.op = "updateObjectPosition"
    /\ lastOp.found
    /\ lastOp.args[1] = Vector3(0, 0, 0)
    /\ object(lastOp.id).type = "plane"
    /\ object(lastOp.id).rotation = Euler(0, 0, 0)
    /\ object(lastOp.id).equation = "0.00x + 0.00y + 1.00z + 0.00 = 0"

\* the text of a point, as the line equation prints it
pointText(v) ==
    "(" \o toFixed(v.x, 1) \o ", " \o toFixed(v.y, 1) \o ", " \o toFixed(v.z, 1) \o ")"

\* C23: a line rotated by a quarter turn about Z has the direction (0,1,0) at
\* one decimal place, and its equation ends with the direction (0.0, 1.0, 0.0)
QuarterTurnAboutZ ==
    /\ LET direction == normalize(applyEuler(Vector3(SCALE, 0, 0), Euler(0, 0, 2)))
       IN /\ RoundDiv(direction.x * 10, SCALE) = 0
          /\ RoundDiv(direction.y * 10, SCALE) = 10
          /\ RoundDiv(direction.z * 10, SCALE) = 0
    /\ \A j \in 1..Len(objects) :
           (objects[j].type = "line" /\ objects[j].rotation = Euler(0, 0, 2))
               => objects[j].equation =
                      "x = " \o pointText(objects[j].position) \o " + t·(0.0, 1.0, 0.0)"

\* updateObjectRotation has turned a line by a quarter turn about Z
LineTurnedAboutZ ==
    /\ lastOp.op = "updateObjectRotation"
    /\ lastOp.found
    /\ lastOp.args[1] = Euler(0, 0, 2)
    /\ object(lastOp.id).type = "line"
    /\ object(lastOp.id).position = Vector3(2500, -500, 15000)
    /\ object(lastOp.id).equation = "x = (0.3, -0.1, 1.5) + t·(0.0, 1.0, 0.0)"

\* the normal of a plane with a rotation of FormatRotations: the rotated (0,0,1)
unitNormal(rotation) ==
    IF rotation = Euler(2, 0, 0) THEN Vector3(0, -1, 0) ELSE Vector3(0, 0, 1)

\* the offset of the plane through position with a normal of unitNormal
offset(normal, position) ==
    -(normal.x * position.x + normal.y * position.y + normal.z * position.z)

\* C24: the equation of a plane prints the rotated normal of (0,0,1) and the
\* offset d = -(normal . position), each after " + " with its own sign; with
\* zero rotation the offset is -z whatever x and y are
PlaneCoefficients ==
    \A j \in 1..Len(objects) :
        objects[j].type = "plane"
            => /\ objects[j].equation =
                      toFixed(unitNormal(objects[j].rotation).x * SCALE, 2) \o "x + "
                      \o toFixed(unitNormal(objects[j].rotation).y * SCALE, 2) \o "y + "
                      \o toFixed(unitNormal(objects[j].rotation).z * SCALE, 2) \o "z + "
                      \o toFixed(offset(unitNormal(objects[j].rotation),
                                         objects[j].position), 2)
                      \o " = 0"
               /\ objects[j].rotation = Euler(0, 0, 0)
                      => objects[j].equation =
                             "0.00x + 0.00y + 1.00z + "
                             \o toFixed(-objects[j].position.z, 2) \o " = 0"

\* a plane turned by a quarter turn about X has been moved to a position
\* with a negative y: the normal and the offset are printed with a minus sign
PlaneWithNegativeTerms ==
    /\ lastOp.op = "updateObjectPosition"
    /\ lastOp.found
    /\ lastOp.args[1] = Vector3(2500, -500, 15000)
    /\ object(lastOp.id).type = "plane"
    /\ object(lastOp.id).rotation = Euler(2, 0, 0)
    /\ object(lastOp.id).equation = "0.00x + -1.00y + 0.00z + -0.05 = 0"

\* C25: the store starts with an empty collection and no selection
InitiallyEmpty ==
    lastOp.op = "create" => objects = <<>> /\ selectedObjectId = NULL

\* the store as constructed: no operation has been called and no id drawn
JustCreated ==
    /\ lastOp.op = "create"
    /\ nextId = 1
    /\ removed = {}
    /\ Store = [objects |-> <<>>, selectedObjectId |-> NULL]

\* C26: addLine and addPlane make the collection one longer, by an id it did
\* not hold; removeObject makes it one shorter when the id is stored and leaves
\* it alone otherwise; no other operation changes the set of stored ids
OnlyAddAndRemoveResize ==
    [][/\ lastOp'.op \in Adds
           => /\ Len(objects') = Len(objects) + 1
              /\ idsOf(objects') = idsOf(objects) \cup {last(objects').id}
              /\ last(objects').id \notin idsOf(objects)
       /\ lastOp'.op = "removeObject"
           => /\ Len(objects') = Len(objects) - (IF stored(lastOp'.id) THEN 1 ELSE 0)
              /\ idsOf(objects') = idsOf(objects) \ {lastOp'.id}
       /\ lastOp'.op \notin Adds \cup {"removeObject"}
           => /\ Len(objects') = Len(objects)
              /\ idsOf(objects') = idsOf(objects)]_vars

\* a second object has been added and one of the two removed
OneLeftAfterRemoval ==
    /\ lastOp.op = "removeObject"
    /\ lastOp.found
    /\ nextId = 3
    /\ Len(objects) = 1

\* a store state with the ids and the colors left out: the objects in order,
\* and which of them is selected (none when the selected id is not stored)
aside(s) ==
    [objects |-> [j \in 1..Len(s.objects) |->
                     [type |-> s.objects[j].type,
                      position |-> s.objects[j].position,
                      rotation |-> s.objects[j].rotation,
                      equation |-> s.objects[j].equation,
                      visible |-> s.objects[j].visible]],
     selection |-> <<s.selectedObjectId = NULL, find(s.objects, s.selectedObjectId)>>]

\* C27: given the same calls, with explicit poses for addLine and addPlane,
\* the three definitions of the store hold the same objects in the same order
\* and the same selection after every call, ids and colors aside
CopiesAgree ==
    /\ Len(copies) = 2
    /\ \A k \in 1..Len(copies) : aside(copies[k]) = aside(Store)

\* the three stores hold two objects under different ids and colors, and one
\* of the objects has just been given a rotation
CopiesRotated ==
    /\ lastOp.op = "updateObjectRotation"
    /\ lastOp.found
    /\ object(lastOp.id).rotation = Euler(0, 0, 2)
    /\ Len(objects) = 2
    /\ \A k \in 1..Len(copies) :
           /\ Len(copies[k].objects) = 2
           /\ idsOf(copies[k].objects) \cap idsOf(objects) = {}
           /\ copies[k].objects[1].color # objects[1].color
    /\ idsOf(copies[1].objects) \cap idsOf(copies[2].objects) = {}

\* the collection is the two samples: a line, then a plane, the plane selected
TwoSamples ==
    /\ Len(objects) = 2
    /\ objects[1].type = "line"
    /\ objects[2].type = "plane"
    /\ selectedObjectId = objects[2].id

\* C28: the effect of ARScene that sees an empty collection adds a line and
\* then a plane; an empty collection is followed by the collection [line,
\* plane] with the plane selected
SamplesFollowEmpty ==
    /\ [][deps' # deps /\ objects = <<>> => TwoSamples']_vars
    /\ (objects = <<>>) ~> TwoSamples

\* the last object has been deleted and the effect has added the samples again
SamplesAddedAgain ==
    /\ TwoSamples
    /\ removed # {}
    /\ deps = 0
    /\ lastOp.op = "addPlane"

\* C29: during a drag, a step changes the position of no object but the one
\* that was selected at the selectstart that began the drag
OnlyGrabbedMoves ==
    [][dragControls.isDragging /\ dragControls'.isDragging
           => \A i \in 1..Len(objects), j \in 1..Len(objects') :
                  objects[i].id = objects'[j].id /\ objects[i].id # dragControls.grabbed
                      => objects'[j].position = objects[i].position]_vars

\* C30: the drag type of DragControls is null or "move", and no rotation is
\* given to the store: the only caller of updateObjectRotation in SpecDrag
\* would be the "rotate" branch of DragControls
DragTypeMoveOrNull ==
    /\ dragControls.dragType \in {Nothing, <<"move">>}
    /\ lastOp.op # "updateObjectRotation"

\* a frame of a drag has moved the selected object
DraggedByFrame ==
    /\ dragControls.isDragging
    /\ dragControls.dragType = <<"move">>
    /\ lastOp.op = "updateObjectPosition"
    /\ lastOp.found
    /\ lastOp.id = dragControls.grabbed
    /\ object(lastOp.id).position # dragControls.startObjectPosition[1]

\* what a step of the drag controls may do: a drag starts only by grabbing
\* the selected, stored object; it ends with every field cleared; a position
\* is given to the store only for the selected, stored object
dragStep ==
    /\ (~dragControls.isDragging /\ dragControls'.isDragging)
         => (/\ selectedObjectId # NULL
             /\ stored(selectedObjectId)
             /\ dragControls'.grabbed = selectedObjectId
             /\ dragControls'.startObjectPosition =
                    <<object(selectedObjectId).position>>)
    /\ (dragControls.isDragging /\ ~dragControls'.isDragging)
         => (/\ dragControls'.dragType = Nothing
             /\ dragControls'.startControllerPosition = Nothing
             /\ dragControls'.startObjectPosition = Nothing)
    /\ (/\ <<lastOp, published, objects>>' # <<lastOp, published, objects>>
        /\ lastOp'.op = "updateObjectPosition")
         => (/\ selectedObjectId # NULL
             /\ stored(selectedObjectId)
             /\ lastOp'.id = selectedObjectId)

\* C31: the four drag fields of DragControls are set together and cleared
\* together; a drag starts only in a step that grabs the selected object,
\* which is stored; and a position is given to the store only for the
\* selected object, which is stored
DragFieldsTogether ==
    /\ [](/\ dragControls.isDragging <=> dragControls.dragType # Nothing
          /\ dragControls.isDragging <=> dragControls.startControllerPosition # Nothing
          /\ dragControls.isDragging <=> dragControls.startObjectPosition # Nothing)
    /\ [][dragStep]_vars

\* a drag that has moved its object has been ended by a selectend
DragEnded ==
    /\ ~dragControls.isDragging
    /\ dragControls.startObjectPosition = Nothing
    /\ dragControls.grabbed # NULL
    /\ lastOp.op = "updateObjectPosition"
    /\ lastOp.id = dragControls.grabbed

\* what a step of the components may do: a position is given to the store for
\* an id only while the component of that id is in a drag that has begun and
\* has not ended, and a drag begins only at the selected object
componentStep ==
    \A id \in Ids :
        /\ (/\ <<lastOp, published, objects>>' # <<lastOp, published, objects>>
            /\ lastOp'.op = "updateObjectPosition"
            /\ lastOp'.id = id)
             => (component(id).isDragging /\ component(id).drag = "began")
        /\ (~component(id).isDragging /\ component(id)'.isDragging)
             => (isSelected(id) /\ shown(objects, id))

between == " + t·"

\* where that text begins in the equation of a line
split(equation) ==
    CHOOSE i \in 1..Len(equation) : SubSeq(equation, i, i + Len(between) - 1) = between

\* the two triples of the equation of a line, read from its text
pointTriple(equation) == SubSeq(equation, Len("x = ") + 1, split(equation) - 1)

directionTriple(equation) ==
    SubSeq(equation, split(equation) + Len(between), Len(equation))

\* the lines stored before and after a step, as pairs of positions in the lists
keptLines ==
    {ij \in (1..Len(objects)) \X (1..Len(objects')) :
        /\ objects[ij[1]].id = objects'[ij[2]].id
        /\ objects[ij[1]].type = "line"}

\* C33: updateObjectPosition leaves the direction triple of the equation of
\* every line as it was, and updateObjectRotation leaves its point triple
LinePartsIndependent ==
    [][/\ lastOp'.op = "updateObjectPosition"
           => \A ij \in keptLines :
                  directionTriple(objects'[ij[2]].equation) =
                      directionTriple(objects[ij[1]].equation)
       /\ lastOp'.op = "updateObjectRotation"
           => \A ij \in keptLines :
                  pointTriple(objects'[ij[2]].equation) =
                      pointTriple(objects[ij[1]].equation)]_vars

\* a turned line has been moved: its point triple is new, its direction
\* triple is that of its rotation
TurnedLineMoved ==
    /\ lastOp.op = "updateObjectPosition"
    /\ lastOp.found
    /\ lastOp.args[1] = Vector3(-2 * SCALE, 3 * SCALE, -5000)
    /\ object(lastOp.id).type = "line"
    /\ object(lastOp.id).rotation = Euler(0, 0, 2)
    /\ pointTriple(object(lastOp.id).equation) = "(-2.0, 3.0, -0.5)"
    /\ directionTriple(object(lastOp.id).equation) = "(0.0, 1.0, 0.0)"

\* the store state after toggleVisibility(id) from the state s
toggled(s, id) == after(s, toggleVisibility_sets(s, id))

\* C34: toggleVisibility of the selected, stored object leaves it stored and
\* selected with its flag negated, and toggleVisibility of it once more gives
\* the store state there was before the first
ToggleKeepsSelection ==
    [][(/\ objects' # objects
        /\ lastOp'.op = "toggleVisibility"
        /\ selectedObjectId # NULL
        /\ lastOp'.id = selectedObjectId
        /\ stored(selectedObjectId))
           => (/\ selectedObjectId' = selectedObjectId
               /\ idsOf(objects') = idsOf(objects)
               /\ objects'[find(objects', selectedObjectId)].visible =
                      ~objects[find(objects, selectedObjectId)].visible
               /\ toggled(Store', selectedObjectId) = Store)]_vars

\* the selected object has been hidden and is still the selected one
HiddenStillSelected ==
    /\ lastOp.op = "toggleVisibility"
    /\ lastOp.found
    /\ lastOp.selected = lastOp.id
    /\ selectedObjectId = lastOp.id
    /\ stored(lastOp.id)
    /\ ~object(lastOp.id).visible

\* the object a call without arguments has to create: one unit up the y axis,
\* not turned, with the equation of that pose
asDefault(mathObject) ==
    /\ mathObject.position = Vector3(0, SCALE, 0)
    /\ mathObject.rotation = Euler(0, 0, 0)
    /\ mathObject.type = "line"
           => mathObject.equation = "x = (0.0, 1.0, 0.0) + t·(1.0, 0.0, 0.0)"
    /\ mathObject.type = "plane"
           => mathObject.equation = "0.00x + 0.00y + 1.00z + 0.00 = 0"

\* C35: addLine() and addPlane() without arguments create, in the store and
\* in the store of ARScene.tsx, an object at (0, 1, 0) that is not turned,
\* with the equation of that pose; it is equal in pose and equation to an
\* earlier object of its type that is still as it was created, and differs
\* from every earlier object in its id
DefaultsCreated ==
    /\ (lastOp.op \in Adds /\ lastOp.args = <<>>)
           => /\ asDefault(last(objects))
              /\ \A j \in 1..(Len(objects) - 1) :
                     /\ objects[j].id # last(objects).id
                     /\ (/\ objects[j].type = last(objects).type
                         /\ objects[j].position = Vector3(0, SCALE, 0)
                         /\ objects[j].rotation = Euler(0, 0, 0)
                         /\ consistent(<<objects[j]>>))
                            => objects[j].equation = last(objects).equation
    /\ \A random \in Randoms :
           /\ asDefault(last(after(Store,
                  ARScene_addLine(Store, <<>>, generateUUID, random)).objects))
           /\ asDefault(last(after(Store,
                  ARScene_addPlane(Store, <<>>, generateUUID, random)).objects))

\* two lines made by addLine() stand as they were created
TwoDefaultLines ==
    /\ Len(objects) = 2
    /\ lastOp.op = "addLine"
    /\ lastOp.args = <<>>
    /\ objects[1].type = "line"
    /\ objects[2].type = "line"
    /\ objects[1].id # objects[2].id
    /\ objects[1].position = objects[2].position
    /\ objects[1].rotation = objects[2].rotation
    /\ objects[1].equation = objects[2].equation
    /\ objects[2].equation = "x = (0.0, 1.0, 0.0) + t·(1.0, 0.0, 0.0)"

\* the texts hsl(h, 70%, 50%) with an integer h from 0 to 359
HslTexts == {"hsl(" \o ToString(h) \o ", 70%, 50%)" : h \in 0..359}

\* C36: the color of every stored object is hsl(h, 70%, 50%) with an integer
\* h, 0 <= h <= 359
HueBelow360 == \A j \in 1..Len(objects) : objects[j].color \in HslTexts

\* an object was created with the greatest value of Math.random() and has
\* the greatest hue
GreatestHue ==
    /\ Len(objects) = 1
    /\ lastOp.op \in Adds
    /\ objects[1].color = "hsl(359, 70%, 50%)"

====
